---- MODULE Spec2Model ----
(* A model of src/app.py: the cached warehouse access (load_bigquery_data    *)
(* under st.cache_data(ttl=3600)), the filter fragment (where_clause), the   *)
(* four report sections of the script and their reshape steps.               *)
EXTENDS Integers, Sequences, FiniteSets, TLC

VARIABLES
    cache,      \* st.cache_data store of load_bigquery_data: request text -> entry
    now,        \* the clock the cache reads
    warehouse,  \* the BigQuery side: can a client be made, does a query run, the data
    last,       \* what the latest call of load_bigquery_data did: its result,
                \* whether the body ran, the st.error the body made, what was raised
    returned,   \* per request text, the result its latest call returned
    selected_years,       \* the year multiselect's value (a list of ints)
    selected_severities,  \* the severity multiselect's value (a list of strings)
    where_clause,         \* the filter fragment, as the text the script builds
    pc,           \* where the script run stands
    display,      \* per report section, what it has put on the page
    hourly_raw,   \* what load_bigquery_data(hourly_query) returned
    hourly_data,  \* the variable hourly_data (the raw table, then the merged one)
    day_hour_data,  \* what load_bigquery_data(day_hour_query) returned
    pivot_data,     \* the heatmap grid after pivot, reindex and fillna
    max_idx,        \* the (day, hour) label stack().idxmax() returned
    max_text,       \* the peak callout: day, hour and count shown
    monthly_data,   \* what load_bigquery_data(monthly_query) returned
    seasonal_data   \* the season table of the pie chart

cacheVars == <<cache, now, warehouse, last, returned>>
filterVars == <<selected_years, selected_severities, where_clause>>
hourlyVars == <<hourly_raw, hourly_data>>
heatmapVars == <<day_hour_data, pivot_data, max_idx, max_text>>
monthlyVars == <<monthly_data, seasonal_data>>
vars == <<cache, now, warehouse, last, returned,
          selected_years, selected_severities, where_clause,
          pc, display, hourly_raw, hourly_data,
          day_hour_data, pivot_data, max_idx, max_text,
          monthly_data, seasonal_data>>

(***************************************************************************)
(* Bounds of the model                                                     *)
(***************************************************************************)
TickStep == 1800
MaxClock == 7200
MaxVersion == 2

(***************************************************************************)
(* Data access: get_bigquery_client, load_bigquery_data, st.cache_data     *)
(***************************************************************************)
ttl == 3600

None == "None"

\* The request texts handed to load_bigquery_data.
Queries == {"hourly_query", "day_hour_query"}

\* pd.DataFrame(): no columns, no rows.
EmptyDataFrame == [cols |-> {}, rows |-> 0]

\* DataFrame.empty
IsEmpty(df) == df.cols = {} \/ df.rows = 0

\* The columns each request text selects.
Columns(q) ==
    CASE q = "intersection_query" ->
            {"INTASTREETNAME", "INTBSTREETNAME", "crash_count", "latitude", "longitude"}
      [] q = "hourly_query"   -> {"HOUR", "crash_count"}
      [] q = "day_hour_query" -> {"DAYOFWEEKNAME", "HOUR", "crash_count"}
      [] q = "monthly_query"  -> {"MONTHNAME", "crash_count"}

\* The frames to_dataframe() may hand back: with the columns selected, or
\* lacking columns the script reads.
Shapes == {"as selected", "no coordinates", "no count"}

Lacking(shape) ==
    CASE shape = "as selected"    -> {}
      [] shape = "no coordinates" -> {"latitude", "longitude"}
      [] shape = "no count"       -> {"crash_count"}

\* client.query(query).to_dataframe() when it does not raise: a frame over
\* the rows the data holds now (rows = 0: no row matches).
QueryResult(q, w) == [cols |-> Columns(q) \ Lacking(w.shape), rows |-> w.version]

\* get_bigquery_client: the client, or None with st.error when creation raises.
GetBigqueryClient(w) ==
    IF w.auth THEN [client |-> "client", error |-> "none"]
              ELSE [client |-> None,     error |-> "Authentication error"]

\* Mutant: the query runs outside the try block.
LoadBody_NoTry(q, w) ==
    LET c == GetBigqueryClient(w) IN
    IF c.client = None
    THEN [result |-> EmptyDataFrame, error |-> c.error, raised |-> FALSE]
    ELSE IF w.exec
         THEN [result |-> QueryResult(q, w), error |-> "none", raised |-> FALSE]
         ELSE [result |-> EmptyDataFrame, error |-> "none", raised |-> TRUE]

\* The body of load_bigquery_data (a cache miss runs it).
LoadBody(q, w) ==
    LET c == GetBigqueryClient(w) IN
    IF c.client = None
    THEN [result |-> EmptyDataFrame, error |-> c.error, raised |-> FALSE]
    ELSE IF w.exec
         THEN [result |-> QueryResult(q, w), error |-> "none", raised |-> FALSE]
         ELSE [result |-> EmptyDataFrame, error |-> "Error executing query",
               raised |-> FALSE]

\* Mutant: entries never expire (the ttl argument dropped).
IsFresh_NoExpiry(entry, t) == TRUE

\* An entry of the cache is usable while younger than ttl.
IsFresh(entry, t) == t - entry.stamp < ttl

\* Mutant: the function is not cached at all.
CacheHit_NoCache(q) == FALSE

CacheHit(q) == q \in DOMAIN cache /\ IsFresh(cache[q], now)

\* f with key k set to v (a dict assignment).
Put(f, k, v) == [x \in DOMAIN f \cup {k} |-> IF x = k THEN v ELSE f[x]]

\* Mutant: empty results are not kept.
Store_SkipEmpty(q, result) ==
    IF IsEmpty(result) THEN cache
    ELSE Put(cache, q, [value |-> result, stamp |-> now])

\* What a normal return of the body stores under the request text.
Store(q, result) == Put(cache, q, [value |-> result, stamp |-> now])

\* What the call found stored under its request text (for the record in last).
Found(q) ==
    IF q \in DOMAIN cache
    THEN [hadEntry |-> TRUE, old |-> cache[q].value]
    ELSE [hadEntry |-> FALSE, old |-> EmptyDataFrame]

\* load_bigquery_data(query) as its callers see it, the decorator included:
\* a hit returns the stored value and runs nothing; a miss runs the body and
\* stores whatever it returns normally.
LoadBigqueryData(q) ==
    IF CacheHit(q)
    THEN /\ last' = [query |-> q, result |-> cache[q].value, executed |-> FALSE,
                     error |-> "none", raised |-> FALSE, found |-> Found(q)]
         /\ returned' = Put(returned, q, cache[q].value)
         /\ UNCHANGED cache
    ELSE LET r == LoadBody(q, warehouse) IN
         /\ last' = [query |-> q, result |-> r.result, executed |-> TRUE,
                     error |-> r.error, raised |-> r.raised, found |-> Found(q)]
         /\ returned' = IF r.raised THEN returned
                        ELSE Put(returned, q, r.result)
         /\ cache' = IF r.raised THEN cache ELSE Store(q, r.result)

Call(q) ==
    /\ LoadBigqueryData(q)
    /\ UNCHANGED <<now, warehouse>>
    /\ UNCHANGED <<filterVars, pc, display, hourlyVars, heatmapVars, monthlyVars>>

Tick ==
    /\ now + TickStep <= MaxClock
    /\ now' = now + TickStep
    /\ UNCHANGED <<cache, warehouse, last, returned>>
    /\ UNCHANGED <<filterVars, pc, display, hourlyVars, heatmapVars, monthlyVars>>

\* The warehouse becomes (un)reachable, or its data changes.
WarehouseChange ==
    /\ \E a \in BOOLEAN, e \in BOOLEAN, v \in 0..MaxVersion :
          /\ warehouse' = [warehouse EXCEPT !.auth = a, !.exec = e, !.version = v]
          /\ warehouse' # warehouse
    /\ UNCHANGED <<cache, now, last, returned>>
    /\ UNCHANGED <<filterVars, pc, display, hourlyVars, heatmapVars, monthlyVars>>

NoCall == [query |-> None, result |-> EmptyDataFrame, executed |-> FALSE,
           error |-> "none", raised |-> FALSE,
           found |-> [hadEntry |-> FALSE, old |-> EmptyDataFrame]]

\* A warehouse that answers, with data.
Healthy == [auth |-> TRUE, exec |-> TRUE, version |-> 1, shape |-> "as selected"]

\* The data access part before any call.
CacheIdle ==
    /\ cache = <<>>
    /\ now = 0
    /\ last = NoCall
    /\ returned = <<>>

\* The filter part before the sidebar is built.
FiltersIdle ==
    /\ selected_years = <<>>
    /\ selected_severities = <<>>
    /\ where_clause = <<>>

\* The report sections of the script, in its order.
Sections == <<"top", "hourly", "heatmap", "monthly">>

SectionSet == {Sections[i] : i \in DOMAIN Sections}

\* pivot_data before the heatmap section has run.
NoPivot == [index |-> <<>>, columns |-> <<>>, values |-> <<>>]

\* No section has rendered and no table is loaded.
ReportsIdle ==
    /\ pc = "start"
    /\ display = [s \in SectionSet |-> "none"]
    /\ hourly_raw = <<>>
    /\ hourly_data = <<>>
    /\ day_hour_data = <<>>
    /\ pivot_data = NoPivot
    /\ max_idx = <<>>
    /\ max_text = <<>>
    /\ monthly_data = <<>>
    /\ seasonal_data = <<>>

Init ==
    /\ CacheIdle
    /\ warehouse \in [auth : BOOLEAN, exec : BOOLEAN, version : 0..MaxVersion,
                      shape : {"as selected"}]
    /\ FiltersIdle
    /\ ReportsIdle

Next ==
    \/ \E q \in Queries : Call(q)
    \/ Tick
    \/ WarehouseChange

Spec == Init /\ [][Next]_vars

(***************************************************************************)
(* Query builder: where_clauses / where_clause (src/app.py 88-99).         *)
(* A text is the sequence of its pieces: the literal pieces of the source  *)
(* are one piece each, a severity contributes its characters.              *)
(***************************************************************************)
\* The options the sidebar offers (distinct values read from the warehouse).
YearOptions == {2021, 2022, 2023}

\* Severity categories, each the sequence of its characters.
SeverityOptions == { <<"F">>, <<"M", "i">>, <<"O", "'", "N">> }

\* The lists a multiselect can return: distinct options in any order.
Selections(S) ==
    { sel \in UNION { [1..k -> S] : k \in 0..Cardinality(S) } :
        \A i, j \in DOMAIN sel : i # j => sel[i] # sel[j] }

MandatoryClause == "INTASTREETNAME IS NOT NULL AND INTBSTREETNAME IS NOT NULL"
YearOpen == "EXTRACT(YEAR FROM DATE) IN ("
SeverityOpen == "SEVERITY_CATEGORY IN ("
Close == ")"
Comma == ", "
And == " AND "
Quote == "'"

\* sep.join(parts), parts a list of texts.
RECURSIVE Join(_, _)
Join(parts, sep) ==
    IF parts = <<>> THEN <<>>
    ELSE IF Len(parts) = 1 THEN parts[1]
    ELSE parts[1] \o <<sep>> \o Join(Tail(parts), sep)

\* [str(year) for year in selected_years]
YearTexts(years) == [i \in DOMAIN years |-> <<ToString(years[i])>>]

\* [f"'{s}'" for s in selected_severities]
SeverityTexts(sevs) == [i \in DOMAIN sevs |-> <<Quote>> \o sevs[i] \o <<Quote>>]

\* Mutant: the year clause is appended without the `if selected_years:` test.
WhereClauses_NoGuard(years, sevs) ==
    <<  <<MandatoryClause>>,
        <<YearOpen>> \o Join(YearTexts(years), Comma) \o <<Close>> >>
    \o (IF sevs # <<>>
        THEN << <<SeverityOpen>> \o Join(SeverityTexts(sevs), Comma) \o <<Close>> >>
        ELSE <<>>)

\* where_clauses after lines 89-97.
WhereClauses(years, sevs) ==
    << <<MandatoryClause>> >>
    \o (IF years # <<>>
        THEN << <<YearOpen>> \o Join(YearTexts(years), Comma) \o <<Close>> >>
        ELSE <<>>)
    \o (IF sevs # <<>>
        THEN << <<SeverityOpen>> \o Join(SeverityTexts(sevs), Comma) \o <<Close>> >>
        ELSE <<>>)

\* where_clause = " AND ".join(where_clauses)
WhereClause(years, sevs) == Join(WhereClauses(years, sevs), And)

\* One run of the script's filter part for a choice made in the sidebar.
Select(years, sevs) ==
    /\ selected_years' = years
    /\ selected_severities' = sevs
    /\ where_clause' = WhereClause(years, sevs)
    /\ UNCHANGED <<cacheVars, pc, display, hourlyVars, heatmapVars, monthlyVars>>

\* First run: the multiselects default to every option.
InitWhere ==
    /\ CacheIdle
    /\ warehouse = Healthy
    /\ selected_years \in { y \in Selections(YearOptions) : Len(y) = Cardinality(YearOptions) }
    /\ selected_severities \in
          { v \in Selections(SeverityOptions) : Len(v) = Cardinality(SeverityOptions) }
    /\ where_clause = WhereClause(selected_years, selected_severities)
    /\ ReportsIdle

NextWhere ==
    \E years \in Selections(YearOptions), sevs \in Selections(SeverityOptions) :
        Select(years, sevs)

SpecWhere == InitWhere /\ [][NextWhere]_vars

(***************************************************************************)
(* Hourly report: hourly_data (src/app.py 197-258).                        *)
(* A table is the sequence of its rows.                                    *)
(***************************************************************************)
NumHours == 24

\* range(a, b) as a list.
Range(a, b) == [i \in 1..(b - a) |-> a + i - 1]

\* NaN (a missing value of a DataFrame), encoded as a number that is no hour
\* and no count.
NaN == 0 - 1

\* A NULL HOUR of the warehouse arrives as NaN: equal to no hour of the day.
NullHour == NaN

\* The hours and counts the bounded raw results are drawn from.
InputHours == {0, 7, 8, 23, NullHour}
InputCounts == {1, 5}

\* GROUP BY HOUR ... ORDER BY HOUR: one row per hour present, ascending
\* (NULL first), each count at least 1.
RECURSIVE SortedHours(_)
SortedHours(S) ==
    IF S = {} THEN <<>>
    ELSE LET m == CHOOSE x \in S : \A y \in S : x <= y
         IN  <<m>> \o SortedHours(S \ {m})

HourlyResults ==
    UNION { { [i \in DOMAIN SortedHours(H) |->
                 [HOUR |-> SortedHours(H)[i], crash_count |-> c[SortedHours(H)[i]]]] :
              c \in [H -> InputCounts] } : H \in SUBSET InputHours }

\* The rows of right whose HOUR equals h, in order.
RECURSIVE Matches(_, _)
Matches(right, h) ==
    IF right = <<>> THEN <<>>
    ELSE (IF right[1].HOUR = h THEN <<right[1]>> ELSE <<>>) \o Matches(Tail(right), h)

\* Mutant: an inner join, which keeps only the hours present on both sides.
RECURSIVE MergeInner(_, _)
MergeInner(left, right) ==
    IF left = <<>> THEN <<>>
    ELSE LET m == Matches(right, left[1].HOUR) IN
         [i \in DOMAIN m |-> [HOUR |-> left[1].HOUR, crash_count |-> m[i].crash_count]]
         \o MergeInner(Tail(left), right)

\* pd.merge(left, right, on='HOUR', how='left'): every left row in order,
\* once per matching right row, or once with NaN when none matches.
RECURSIVE MergeLeft(_, _)
MergeLeft(left, right) ==
    IF left = <<>> THEN <<>>
    ELSE LET m == Matches(right, left[1].HOUR) IN
         (IF m = <<>> THEN << [HOUR |-> left[1].HOUR, crash_count |-> NaN] >>
          ELSE [i \in DOMAIN m |-> [HOUR |-> left[1].HOUR,
                                    crash_count |-> m[i].crash_count]])
         \o MergeLeft(Tail(left), right)

\* DataFrame.fillna(0) on the rows of the hourly table.
FillNa0(rows) ==
    [i \in DOMAIN rows |->
        [rows[i] EXCEPT !.crash_count = IF @ = NaN THEN 0 ELSE @]]

\* all_hours = pd.DataFrame({'HOUR': range(0, 24)})
AllHours == [i \in 1..NumHours |-> [HOUR |-> Range(0, NumHours)[i]]]

\* Line 202.
HourlyPostProcess(raw) == FillNa0(MergeLeft(AllHours, raw))

\* hourly_data = load_bigquery_data(hourly_query), the result drawn from the
\* bounded raw results.
LoadHourly ==
    /\ pc \in {"start", "hourly done"}
    /\ \E raw \in HourlyResults :
          /\ hourly_raw' = raw
          /\ hourly_data' = raw
    /\ pc' = "hourly loaded"
    /\ display' = [display EXCEPT !["hourly"] = "none"]
    /\ UNCHANGED <<cacheVars, filterVars, heatmapVars, monthlyVars>>

\* Lines 199-258: the merged table and its chart, or the error message.
HourlySection ==
    /\ pc = "hourly loaded"
    /\ IF hourly_data # <<>>
       THEN /\ hourly_data' = HourlyPostProcess(hourly_data)
            /\ display' = [display EXCEPT !["hourly"] = "views"]
       ELSE /\ display' = [display EXCEPT !["hourly"] = "error"]
            /\ UNCHANGED hourly_data
    /\ pc' = "hourly done"
    /\ UNCHANGED <<cacheVars, filterVars, hourly_raw, heatmapVars, monthlyVars>>

InitHourly ==
    /\ CacheIdle
    /\ warehouse = Healthy
    /\ FiltersIdle
    /\ ReportsIdle

NextHourly == LoadHourly \/ HourlySection

SpecHourly == InitHourly /\ [][NextHourly]_vars

(***************************************************************************)
(* Day-hour heatmap: pivot_data, max_idx (src/app.py 282-321).             *)
(***************************************************************************)
\* Line 289.
day_order == <<"Monday", "Tuesday", "Wednesday", "Thursday", "Friday", "Saturday",
               "Sunday">>

\* The day names in the order pandas sorts an index of strings.
SortedDayNames == <<"Friday", "Monday", "Saturday", "Sunday", "Thursday", "Tuesday",
                    "Wednesday">>

SeqToSet(q) == {q[i] : i \in DOMAIN q}

\* The subsequence of q whose elements are in S.
RECURSIVE Keep(_, _)
Keep(q, S) ==
    IF q = <<>> THEN <<>>
    ELSE (IF q[1] \in S THEN <<q[1]>> ELSE <<>>) \o Keep(Tail(q), S)

\* The bounded raw results: optionally one day with every hour of the day at
\* one count, and any of a few single cells, each cell at most once
\* (GROUP BY DAYOFWEEKNAME, HOUR), in the order of the ORDER BY.
InputDays == {"Monday", "Wednesday", "Sunday"}
InputCells == { <<"Monday", 8>>, <<"Wednesday", 8>>, <<"Wednesday", 0>>, <<"Sunday", 23>> }

DenseDay(d) == { <<d, h>> : h \in 0..(NumHours - 1) }

HeatmapCounts ==
    UNION { UNION { { [c \in cells \cup dense |-> IF c \in cells THEN fc[c] ELSE dc] :
                        fc \in [cells -> InputCounts], dc \in InputCounts } :
                    cells \in SUBSET InputCells } :
            dense \in {{}} \cup {DenseDay(d) : d \in InputDays} }

\* Position of x in the list q.
IndexOf(q, x) == CHOOSE i \in DOMAIN q : q[i] = x

\* The ORDER BY key of a (day, hour) pair: the day's ordinal, then the hour.
OrderKey(c) == (IndexOf(day_order, c[1]) - 1) * NumHours + c[2]

\* The rows of a count function in warehouse order.
RowsInOrder(f) ==
    [k \in 1..Cardinality(DOMAIN f) |->
        LET c == CHOOSE c \in DOMAIN f :
                    Cardinality({x \in DOMAIN f : OrderKey(x) <= OrderKey(c)}) = k
        IN  [DAYOFWEEKNAME |-> c[1], HOUR |-> c[2], crash_count |-> f[c]]]

HeatmapResults == { RowsInOrder(f) : f \in HeatmapCounts }

\* DataFrame.pivot(index='DAYOFWEEKNAME', columns='HOUR', values='crash_count'):
\* the index holds the days present, the columns the hours present, both
\* sorted; a cell without a row is NaN.
Pivot(rows) ==
    LET days  == {rows[i].DAYOFWEEKNAME : i \in DOMAIN rows}
        hours == {rows[i].HOUR : i \in DOMAIN rows}
    IN  [index   |-> Keep(SortedDayNames, days),
         columns |-> SortedHours(hours),
         values  |-> [c \in days \X hours |->
                        IF \E i \in DOMAIN rows :
                              rows[i].DAYOFWEEKNAME = c[1] /\ rows[i].HOUR = c[2]
                        THEN rows[CHOOSE i \in DOMAIN rows :
                              rows[i].DAYOFWEEKNAME = c[1] /\ rows[i].HOUR = c[2]].crash_count
                        ELSE NaN]]

\* DataFrame.reindex(labels): the rows become labels, in that order; a label
\* the frame lacks gets a row of NaN.
Reindex(p, labels) ==
    [index   |-> labels,
     columns |-> p.columns,
     values  |-> [c \in SeqToSet(labels) \X SeqToSet(p.columns) |->
                    IF c[1] \in SeqToSet(p.index) THEN p.values[c] ELSE NaN]]

\* DataFrame.fillna(0) on a grid.
PivotFillNa0(p) == [p EXCEPT !.values = [c \in DOMAIN @ |-> IF @[c] = NaN THEN 0 ELSE @[c]]]

\* DataFrame.stack(): the cells row by row, each with its (day, hour) label.
Stack(p) ==
    LET w == Len(p.columns) IN
    [k \in 1..(Len(p.index) * w) |->
        LET d == p.index[((k - 1) \div w) + 1]
            h == p.columns[((k - 1) % w) + 1]
        IN  [label |-> <<d, h>>, value |-> p.values[<<d, h>>]]]

\* Mutant: the label of the last greatest value.
IdxMaxLast(series) ==
    series[CHOOSE k \in DOMAIN series :
              /\ \A j \in DOMAIN series : series[j].value <= series[k].value
              /\ \A j \in DOMAIN series : j > k => series[j].value < series[k].value].label

\* Series.idxmax(): the label of the first greatest value.
IdxMax(series) ==
    series[CHOOSE k \in DOMAIN series :
              /\ \A j \in DOMAIN series : series[j].value <= series[k].value
              /\ \A j \in DOMAIN series : j < k => series[j].value < series[k].value].label

\* day_hour_data = load_bigquery_data(day_hour_query), the result drawn from
\* the bounded raw results.
LoadDayHour ==
    /\ pc \in {"start", "heatmap done"}
    /\ \E raw \in HeatmapResults : day_hour_data' = raw
    /\ pivot_data' = NoPivot
    /\ max_idx' = <<>>
    /\ max_text' = <<>>
    /\ pc' = "heatmap loaded"
    /\ display' = [display EXCEPT !["heatmap"] = "none"]
    /\ UNCHANGED <<cacheVars, filterVars, hourlyVars, monthlyVars>>

\* Lines 284-321: the grid, its chart and the peak callout, or the error.
HeatmapSection ==
    /\ pc = "heatmap loaded"
    /\ IF day_hour_data # <<>>
       THEN LET grid == PivotFillNa0(Reindex(Pivot(day_hour_data), day_order))
                peak == IdxMax(Stack(grid))
            IN  /\ pivot_data' = grid
                /\ max_idx' = peak
                /\ max_text' = [day |-> peak[1], hour |-> peak[2],
                                crashes |-> grid.values[<<peak[1], peak[2]>>]]
                /\ display' = [display EXCEPT !["heatmap"] = "views"]
       ELSE /\ display' = [display EXCEPT !["heatmap"] = "error"]
            /\ UNCHANGED <<pivot_data, max_idx, max_text>>
    /\ pc' = "heatmap done"
    /\ UNCHANGED <<cacheVars, filterVars, hourlyVars, day_hour_data, monthlyVars>>

InitHeatmap ==
    /\ CacheIdle
    /\ warehouse = Healthy
    /\ FiltersIdle
    /\ ReportsIdle

NextHeatmap == LoadDayHour \/ HeatmapSection

SpecHeatmap == InitHeatmap /\ [][NextHeatmap]_vars

(***************************************************************************)
(* Monthly trends: monthly_data, seasonal_data (src/app.py 348-421).       *)
(***************************************************************************)
\* Line 362.
month_order == <<"January", "February", "March", "April", "May", "June",
                 "July", "August", "September", "October", "November", "December">>

\* Line 400.
season_order == <<"Winter", "Spring", "Summer", "Fall">>

\* Mutant: the seasons shifted by one month.
seasons_Shifted ==
    << [season |-> "Winter", months |-> <<"January", "February", "March">>],
       [season |-> "Spring", months |-> <<"April", "May", "June">>],
       [season |-> "Summer", months |-> <<"July", "August", "September">>],
       [season |-> "Fall",   months |-> <<"October", "November", "December">>] >>

\* Lines 382-387: the dict, in its insertion order.
seasons ==
    << [season |-> "Winter", months |-> <<"December", "January", "February">>],
       [season |-> "Spring", months |-> <<"March", "April", "May">>],
       [season |-> "Summer", months |-> <<"June", "July", "August">>],
       [season |-> "Fall",   months |-> <<"September", "October", "November">>] >>

\* The bounded raw results: any of a few months and of the NULL month name
\* (rows whose MONTHNAME is NULL form one group), one row each (GROUP BY
\* MONTHNAME), in the order of the ORDER BY (NULL first).
InputMonths == {"December", "January", "February", "March", "August", "November", None}

MonthKey(m) == IF m = None THEN 0 ELSE IndexOf(month_order, m)

MonthlyResults ==
    UNION { { [k \in 1..Cardinality(M) |->
                 LET m == CHOOSE m \in M :
                             Cardinality({x \in M : MonthKey(x) <= MonthKey(m)}) = k
                 IN  [MONTHNAME |-> m, crash_count |-> c[m]]] :
              c \in [M -> InputCounts] } : M \in SUBSET InputMonths }

\* monthly_data[monthly_data['MONTHNAME'].isin(months)]['crash_count'].sum()
RECURSIVE SumIsIn(_, _)
SumIsIn(rows, months) ==
    IF rows = <<>> THEN 0
    ELSE (IF rows[1].MONTHNAME \in SeqToSet(months) THEN rows[1].crash_count ELSE 0)
         + SumIsIn(Tail(rows), months)

\* Lines 390-397: one row per season, in the order of the dict.
SeasonRows(rows) ==
    [i \in DOMAIN seasons |->
        [Season |-> seasons[i].season, crash_count |-> SumIsIn(rows, seasons[i].months)]]

\* The rows of table whose Season is name, in order.
RECURSIVE OfSeason(_, _)
OfSeason(table, name) ==
    IF table = <<>> THEN <<>>
    ELSE (IF table[1].Season = name THEN <<table[1]>> ELSE <<>>)
         \o OfSeason(Tail(table), name)

\* Lines 400-402: sort_values on the categorical Season (stable, by season_order).
RECURSIVE SortBySeason(_, _)
SortBySeason(table, k) ==
    IF k > Len(season_order) THEN <<>>
    ELSE OfSeason(table, season_order[k]) \o SortBySeason(table, k + 1)

\* monthly_data = load_bigquery_data(monthly_query), the result drawn from
\* the bounded raw results.
LoadMonthly ==
    /\ pc \in {"start", "monthly done"}
    /\ \E raw \in MonthlyResults : monthly_data' = raw
    /\ seasonal_data' = <<>>
    /\ pc' = "monthly loaded"
    /\ display' = [display EXCEPT !["monthly"] = "none"]
    /\ UNCHANGED <<cacheVars, filterVars, hourlyVars, heatmapVars>>

\* Lines 350-421: the line chart and the season pie, or the error message.
MonthlySection ==
    /\ pc = "monthly loaded"
    /\ IF monthly_data # <<>>
       THEN /\ seasonal_data' = SortBySeason(SeasonRows(monthly_data), 1)
            /\ display' = [display EXCEPT !["monthly"] = "views"]
       ELSE /\ display' = [display EXCEPT !["monthly"] = "error"]
            /\ UNCHANGED seasonal_data
    /\ pc' = "monthly done"
    /\ UNCHANGED <<cacheVars, filterVars, hourlyVars, heatmapVars, monthly_data>>

InitMonthly ==
    /\ CacheIdle
    /\ warehouse = Healthy
    /\ FiltersIdle
    /\ ReportsIdle

NextMonthly == LoadMonthly \/ MonthlySection

SpecMonthly == InitMonthly /\ [][NextMonthly]_vars

(***************************************************************************)
(* The report part of the script (src/app.py 101-425): the four sections   *)
(* run in order in one script run; an exception that no handler catches    *)
(* ends the run. A frame is taken by its columns and whether it has rows.  *)
(***************************************************************************)
\* The request text of each section.
QueryOf(s) ==
    CASE s = "top"     -> "intersection_query"
      [] s = "hourly"  -> "hourly_query"
      [] s = "heatmap" -> "day_hour_query"
      [] s = "monthly" -> "monthly_query"

\* The columns a section reads from a frame that has rows, each by a lookup
\* that raises when the column is missing (the map tab alone tests for its
\* latitude and longitude columns first, lines 130 and 153).
Required(s) ==
    CASE s = "top"     -> {"INTASTREETNAME", "INTBSTREETNAME", "crash_count"}
      [] s = "hourly"  -> {"HOUR", "crash_count"}
      [] s = "heatmap" -> {"DAYOFWEEKNAME", "HOUR", "crash_count"}
      [] s = "monthly" -> {"MONTHNAME", "crash_count"}

\* What a section puts on the page for the frame it loaded.
Render(s, df) ==
    IF IsEmpty(df) THEN "error"
    ELSE IF Required(s) \subseteq df.cols THEN "views"
    ELSE "exception"

\* The position after section s.
After(s) == IF IndexOf(Sections, s) = Len(Sections) THEN "end"
            ELSE Sections[IndexOf(Sections, s) + 1]

\* One section: its load_bigquery_data call and what it renders.
Section(s) ==
    /\ pc = s
    /\ LoadBigqueryData(QueryOf(s))
    /\ LET shown == Render(s, last'.result) IN
          /\ display' = [display EXCEPT ![s] = shown]
          /\ pc' = IF shown = "exception" THEN "crashed" ELSE After(s)
    /\ UNCHANGED <<now, warehouse, filterVars, hourlyVars, heatmapVars, monthlyVars>>

\* A widget interaction or a reload starts the next script run (the runs
\* modelled here fall within one ttl of the first: the clock stands still).
Rerun ==
    /\ pc \in {"end", "crashed"}
    /\ pc' = Sections[1]
    /\ display' = [s \in SectionSet |-> "none"]
    /\ UNCHANGED <<cacheVars, filterVars, hourlyVars, heatmapVars, monthlyVars>>

\* The warehouse changes between two steps of the script: reachability, data
\* and the shape of the frames it hands back.
WarehouseDrift ==
    /\ \E w \in [auth : BOOLEAN, exec : BOOLEAN, version : 0..1, shape : Shapes] :
          /\ warehouse' = w
          /\ warehouse' # warehouse
    /\ UNCHANGED <<cache, now, last, returned>>
    /\ UNCHANGED <<filterVars, pc, display, hourlyVars, heatmapVars, monthlyVars>>

InitRender ==
    /\ CacheIdle
    /\ warehouse = Healthy
    /\ FiltersIdle
    /\ ReportsIdle

StartRender ==
    /\ pc = "start"
    /\ pc' = Sections[1]
    /\ UNCHANGED <<cacheVars, filterVars, display, hourlyVars, heatmapVars, monthlyVars>>

NextRender ==
    \/ StartRender
    \/ \E s \in SectionSet : Section(s)
    \/ Rerun
    \/ WarehouseDrift

SpecRender == InitRender /\ [][NextRender]_vars

(***************************************************************************)
(* Claims about the filter fragment                                        *)
(***************************************************************************)
\* The fragment read back as SQL: clauses separated by And; an IN-clause is
\* its opening piece, one or more items separated by Comma, and Close; a year
\* item is a numeral, a severity item a string literal that runs from a Quote
\* to the next Quote.
Malformed == [ok |-> FALSE]

RECURSIVE ReadLiteral(_, _, _)
ReadLiteral(text, i, acc) ==
    IF i > Len(text) THEN Malformed
    ELSE IF text[i] = Quote THEN [ok |-> TRUE, value |-> acc, next |-> i + 1]
    ELSE ReadLiteral(text, i + 1, Append(acc, text[i]))

ReadItem(text, i, kind) ==
    IF i > Len(text) THEN Malformed
    ELSE IF kind = "year"
         THEN IF \E y \in YearOptions : ToString(y) = text[i]
              THEN [ok |-> TRUE, next |-> i + 1,
                    value |-> CHOOSE y \in YearOptions : ToString(y) = text[i]]
              ELSE Malformed
         ELSE IF text[i] = Quote THEN ReadLiteral(text, i + 1, <<>>) ELSE Malformed

RECURSIVE ReadItems(_, _, _, _)
ReadItems(text, i, kind, acc) ==
    LET item == ReadItem(text, i, kind) IN
    IF ~item.ok \/ item.next > Len(text) THEN Malformed
    ELSE IF text[item.next] = Close
         THEN [ok |-> TRUE, next |-> item.next + 1, value |-> Append(acc, item.value)]
    ELSE IF text[item.next] = Comma
         THEN ReadItems(text, item.next + 1, kind, Append(acc, item.value))
    ELSE Malformed

ReadClause(text, i) ==
    IF i > Len(text) THEN Malformed
    ELSE IF text[i] = MandatoryClause
         THEN [ok |-> TRUE, next |-> i + 1, value |-> [kind |-> "not null"]]
    ELSE IF text[i] \in {YearOpen, SeverityOpen}
         THEN LET kind == IF text[i] = YearOpen THEN "year" ELSE "severity"
                  items == ReadItems(text, i + 1, kind, <<>>)
              IN  IF items.ok
                  THEN [ok |-> TRUE, next |-> items.next,
                        value |-> [kind |-> kind, items |-> items.value]]
                  ELSE Malformed
    ELSE Malformed

RECURSIVE ReadClauses(_, _, _)
ReadClauses(text, i, acc) ==
    LET clause == ReadClause(text, i) IN
    IF ~clause.ok THEN Malformed
    ELSE IF clause.next > Len(text)
         THEN [ok |-> TRUE, clauses |-> Append(acc, clause.value)]
    ELSE IF text[clause.next] = And
         THEN ReadClauses(text, clause.next + 1, Append(acc, clause.value))
    ELSE Malformed

ReadWhere(text) == ReadClauses(text, 1, <<>>)

\* The conjunction the claim describes for a selection.
ExpectedClauses(years, sevs) ==
    << [kind |-> "not null"] >>
    \o (IF years # <<>> THEN << [kind |-> "year", items |-> years] >> ELSE <<>>)
    \o (IF sevs # <<>> THEN << [kind |-> "severity", items |-> sevs] >> ELSE <<>>)

\* C2: for every selection the fragment is the AND of the mandatory not-null
\* clause, a year IN-clause listing exactly the selected years iff any is
\* selected, and a severity IN-clause listing exactly the selected
\* severities iff any is selected; no empty IN () is generated.
C2_WhereIsConjunction ==
    ReadWhere(where_clause) =
        [ok |-> TRUE, clauses |-> ExpectedClauses(selected_years, selected_severities)]

\* The same statement for selections whose severities hold no quote character.
C2_WhereIsConjunction_QuoteFree ==
    (\A i \in DOMAIN selected_severities :
        \A j \in DOMAIN selected_severities[i] : selected_severities[i][j] # Quote)
    => C2_WhereIsConjunction


(***************************************************************************)
(* Claims about the hourly report                                          *)
(***************************************************************************)
\* The count the raw result holds for hour h, 0 when it holds none.
RawCount(raw, h) ==
    IF \E i \in DOMAIN raw : raw[i].HOUR = h
    THEN raw[CHOOSE i \in DOMAIN raw : raw[i].HOUR = h].crash_count
    ELSE 0

\* The series has one entry per hour 0..23, ascending, with the raw count or 0.
IsFullSeries(series, raw) ==
    /\ Len(series) = 24
    /\ \A i \in 1..24 :
          /\ series[i].HOUR = i - 1
          /\ series[i].crash_count = RawCount(raw, i - 1)

\* C6 as stated: for every raw hourly result, once the section has run the
\* series holds exactly one entry per hour in [0,23], ascending, with the raw
\* count for hours present and 0 for hours absent.
C6_EveryRawResult ==
    pc = "hourly done" => IsFullSeries(hourly_data, hourly_raw)

\* C6 amended: the same for every raw hourly result that has at least one
\* row; a result without rows is not post-processed, the section shows its
\* error message instead.
C6_NonEmptyRawResult ==
    pc = "hourly done" =>
        IF hourly_raw # <<>>
        THEN IsFullSeries(hourly_data, hourly_raw) /\ display["hourly"] = "views"
        ELSE hourly_data = <<>> /\ display["hourly"] = "error"

\* The section ran on a raw result holding hour 8, lacking hour 0 and holding
\* a NULL hour.
C6_Witness ==
    /\ pc = "hourly done"
    /\ \E i \in DOMAIN hourly_raw : hourly_raw[i].HOUR = 8 /\ hourly_raw[i].crash_count = 5
    /\ \E i \in DOMAIN hourly_raw : hourly_raw[i].HOUR = NullHour
    /\ \A i \in DOMAIN hourly_raw : hourly_raw[i].HOUR # 0
    /\ Len(hourly_data) = 24
    /\ hourly_data[9].crash_count = 5 /\ hourly_data[1].crash_count = 0


(***************************************************************************)
(* Claims about the heatmap                                                *)
(***************************************************************************)
\* The count the raw result holds for (d, h), 0 when it holds none.
RawCell(raw, d, h) ==
    IF \E i \in DOMAIN raw : raw[i].DAYOFWEEKNAME = d /\ raw[i].HOUR = h
    THEN raw[CHOOSE i \in DOMAIN raw :
                raw[i].DAYOFWEEKNAME = d /\ raw[i].HOUR = h].crash_count
    ELSE 0

Week == <<"Monday", "Tuesday", "Wednesday", "Thursday", "Friday", "Saturday", "Sunday">>

\* C5: for every non-empty raw (day, hour, count) result the grid has the 7
\* rows Monday..Sunday and the 24 columns 0..23, in order, each cell holding
\* the raw count or 0 when the pair is absent, also when a whole day or a
\* whole hour is absent.
C5_GridIs7x24 ==
    (pc = "heatmap done" /\ day_hour_data # <<>>) =>
        /\ pivot_data.index = Week
        /\ pivot_data.columns = [i \in 1..24 |-> i - 1]
        /\ \A d \in SeqToSet(Week), h \in 0..23 :
              /\ <<d, h>> \in DOMAIN pivot_data.values
              /\ pivot_data.values[<<d, h>>] = RawCell(day_hour_data, d, h)

\* What the code does build: the 7 rows in order, and as columns the hours
\* the raw result holds, ascending.
C5_GridAsBuilt ==
    (pc = "heatmap done" /\ day_hour_data # <<>>) =>
        /\ pivot_data.index = Week
        /\ pivot_data.columns =
              SortedHours({day_hour_data[i].HOUR : i \in DOMAIN day_hour_data})
        /\ \A d \in SeqToSet(Week), h \in SeqToSet(pivot_data.columns) :
              pivot_data.values[<<d, h>>] = RawCell(day_hour_data, d, h)

\* (d1, h1) comes before (d2, h2) reading the grid row by row.
RowMajorBefore(p, d1, h1, d2, h2) ==
    \/ IndexOf(p.index, d1) < IndexOf(p.index, d2)
    \/ d1 = d2 /\ IndexOf(p.columns, h1) < IndexOf(p.columns, h2)

\* C9: the reported (day, hour) cell holds the greatest count of the grid
\* and no cell before it in row-major order (Monday..Sunday, hours ascending)
\* holds that count; the count of the callout is that cell's count.
C9_PeakIsFirstMaximum ==
    (pc = "heatmap done" /\ day_hour_data # <<>>) =>
        LET g == pivot_data.values IN
        /\ max_idx \in DOMAIN g
        /\ \A c \in DOMAIN g : g[c] <= g[max_idx]
        /\ \A c \in DOMAIN g :
              RowMajorBefore(pivot_data, c[1], c[2], max_idx[1], max_idx[2])
                 => g[c] < g[max_idx]
        /\ max_text = [day |-> max_idx[1], hour |-> max_idx[2], crashes |-> g[max_idx]]

\* A filled 7x24 grid in which the greatest count occurs in several rows and
\* several columns, and the first row holding it is reported.
C9_Witness ==
    /\ pc = "heatmap done"
    /\ Len(pivot_data.index) = 7 /\ Len(pivot_data.columns) = 24
    /\ max_idx = <<"Monday", 8>>
    /\ max_text.crashes = 5
    /\ pivot_data.values[<<"Wednesday", 0>>] = 5
    /\ pivot_data.values[<<"Wednesday", 8>>] = 5
    /\ pivot_data.values[<<"Sunday", 23>>] = 5


(***************************************************************************)
(* Claims about the seasonal aggregation                                   *)
(***************************************************************************)
\* The count the result holds for month m, 0 when it holds none.
MonthCount(rows, m) ==
    IF \E i \in DOMAIN rows : rows[i].MONTHNAME = m
    THEN rows[CHOOSE i \in DOMAIN rows : rows[i].MONTHNAME = m].crash_count
    ELSE 0

\* The counts of the twelve months of the result, added up.
RECURSIVE TotalOfMonths(_, _)
TotalOfMonths(rows, k) ==
    IF k > 12 THEN 0
    ELSE MonthCount(rows, month_order[k]) + TotalOfMonths(rows, k + 1)

\* The value the season table holds for a season, when it holds exactly one.
HasSeason(table, name, value) ==
    /\ Cardinality({i \in DOMAIN table : table[i].Season = name}) = 1
    /\ \E i \in DOMAIN table : table[i].Season = name /\ table[i].crash_count = value

\* The four season values are the sums of their months and add up to the
\* total of the monthly counts.
SeasonsAddUp(table, rows) ==
    /\ Len(table) = 4
    /\ HasSeason(table, "Winter", MonthCount(rows, "December")
                     + MonthCount(rows, "January") + MonthCount(rows, "February"))
    /\ HasSeason(table, "Spring", MonthCount(rows, "March")
                     + MonthCount(rows, "April") + MonthCount(rows, "May"))
    /\ HasSeason(table, "Summer", MonthCount(rows, "June")
                     + MonthCount(rows, "July") + MonthCount(rows, "August"))
    /\ HasSeason(table, "Fall", MonthCount(rows, "September")
                     + MonthCount(rows, "October") + MonthCount(rows, "November"))
    /\ table[1].crash_count + table[2].crash_count + table[3].crash_count
          + table[4].crash_count = TotalOfMonths(rows, 1)

C1_EverySectionRenders ==
    /\ pc # "crashed"
    /\ pc = "end" => \A s \in SectionSet : display[s] \in {"views", "error"}

\* The part of C1 the code does meet: a section whose load failed, came back
\* empty or came back with the columns it reads reaches its own outcome and
\* the run goes on to the next section.
C1_QueryFailuresOnly ==
    [][\A s \in SectionSet :
          (Section(s) /\ (IsEmpty(last'.result) \/ Required(s) \subseteq last'.result.cols))
             => /\ pc' = After(s)
                /\ display'[s] \in {"views", "error"}]_vars

(***************************************************************************)
(* Claims about the cache                                                  *)
(***************************************************************************)
\* The warehouse cannot serve a call now.
Failing(w) == ~w.auth \/ ~w.exec

\* The entry of q, if any, is within its time-to-live window.
Live(q) == q \in DOMAIN cache /\ now - cache[q].stamp < ttl

\* C3: a call of load_bigquery_data with a request text whose entry is within
\* its 1-hour window returns what the previous call with that text returned
\* (hence what the execution that made the entry returned) and runs nothing
\* against the warehouse, whatever other texts were requested in between.
C3_RepeatWithinTtl ==
    [][\A q \in Queries :
          (Call(q) /\ Live(q)) =>
             /\ ~last'.executed
             /\ last'.result = returned[q]
             /\ returned'[q] = returned[q]
             /\ cache' = cache]_vars

\* A repeat of q answered from the cache after the other text was executed
\* later than q, while the warehouse would now answer differently.
C3_Witness ==
    \E q \in Queries, p \in Queries :
        /\ p # q /\ q \in DOMAIN cache /\ p \in DOMAIN cache
        /\ cache[p].stamp > cache[q].stamp
        /\ last.query = q /\ ~last.executed /\ last.found.hadEntry
        /\ last.result.rows > 0
        /\ ~Failing(warehouse) /\ warehouse.version # last.result.rows

\* C4: when a call of load_bigquery_data runs its body while the client cannot
\* be created or the query raises, an error is reported, the call returns the
\* empty DataFrame and nothing is raised to the caller.
C4_FailureReturnsEmpty ==
    [][\A q \in Queries :
          (Call(q) /\ ~Live(q) /\ Failing(warehouse)) =>
             /\ last'.executed
             /\ last'.error # "none"
             /\ last'.result = EmptyDataFrame
             /\ ~last'.raised]_vars

\* A call whose query raised on execution (the client was created).
C4_Witness ==
    /\ last.executed /\ last.error = "Error executing query"
    /\ last.result = EmptyDataFrame /\ ~last.raised
    /\ warehouse.auth /\ ~warehouse.exec

\* What the warehouse answers a call with now.
Fresh(q) == IF Failing(warehouse) THEN EmptyDataFrame ELSE QueryResult(q, warehouse)

\* C8: the first call with a request text creates its entry; a call after the
\* entry's ttl has elapsed runs against the warehouse again, replaces the
\* entry by the new result stamped now and returns that result; no step
\* changes the entry of a text other than the one it executes.
C8_Lifecycle ==
    [][\A q \in Queries :
          /\ (Call(q) /\ q \notin DOMAIN cache) =>
                 /\ last'.executed
                 /\ q \in DOMAIN cache'
                 /\ cache'[q] = [value |-> last'.result, stamp |-> now]
          /\ (Call(q) /\ q \in DOMAIN cache /\ now - cache[q].stamp >= ttl) =>
                 /\ last'.executed
                 /\ last'.result = Fresh(q)
                 /\ cache'[q] = [value |-> Fresh(q), stamp |-> now]
          /\ ~Call(q) =>
                 /\ (q \in DOMAIN cache) = (q \in DOMAIN cache')
                 /\ q \in DOMAIN cache => cache'[q] = cache[q]]_vars

\* An expired entry was replaced by a different result while the other text's
\* older entry is still stored.
C8_Witness ==
    \E p \in Queries :
        /\ last.query \in Queries /\ p # last.query
        /\ last.executed /\ last.found.hadEntry
        /\ last.found.old # last.result
        /\ cache[last.query] = [value |-> last.result, stamp |-> now]
        /\ p \in DOMAIN cache /\ cache[p].stamp < now

\* C10: a failed execution stores the empty DataFrame like any result, and a
\* later call with the same text within the ttl returns it without running
\* against the warehouse, also when the warehouse works again.
C10_FailureIsCached ==
    [][\A q \in Queries :
          /\ (Call(q) /\ ~Live(q) /\ Failing(warehouse)) =>
                 /\ q \in DOMAIN cache'
                 /\ cache'[q] = [value |-> EmptyDataFrame, stamp |-> now]
          /\ (Call(q) /\ Live(q) /\ cache[q].value = EmptyDataFrame) =>
                 /\ ~last'.executed
                 /\ last'.result = EmptyDataFrame]_vars

\* The empty result of a failure was served from the cache while the
\* warehouse was reachable and held rows.
C10_Witness ==
    /\ last.query \in Queries /\ ~last.executed
    /\ last.result = EmptyDataFrame
    /\ ~Failing(warehouse) /\ warehouse.version > 0
    /\ now > cache[last.query].stamp

====
